---- MODULE Spec2Model ----
(***************************************************************************)
(* Model of src/src/features/scheduler.js (class Scheduler).               *)
(*                                                                         *)
(* The scheduler is single-threaded and callback driven.  One action of    *)
(* this module is one callback run to completion: a public method called   *)
(* by the host, a timer callback, or the continuation of an                *)
(* `await cdpHandler.sendPrompt(...)`.  As in section 5 of the design,     *)
(* the callbacks interleave arbitrarily: a timer that is set fires at some *)
(* later step, a send resolves at some later step, and the host calls any  *)
(* method between two callbacks.  Time is in milliseconds and is observed  *)
(* at the cadence of the silence check, every CHECK_INTERVAL_MS.           *)
(*                                                                         *)
(* The program reads the clock only to take differences of timestamps, so  *)
(* the model keeps every timestamp relative to the present: Date.now() is  *)
(* the fixed value `now`, and the passing of time (Tick) moves every       *)
(* held timestamp one step into the past.    A timestamp older than any    *)
(* duration the program compares it with stays at the oldest value kept.   *)
(*                                                                         *)
(* JavaScript `null` timestamps are modelled as 0: the code only tests     *)
(* them by truthiness (line 165) or by numeric comparison (line 178), and  *)
(* both treat null like 0.  queueIndex is 0-based as in the source, so     *)
(* runtimeQueue[queueIndex] of the source is runtimeQueue[queueIndex + 1]. *)
(***************************************************************************)
EXTENDS Integers, Sequences, FiniteSets, Bags, TLC

VARIABLES
    \* fields of Scheduler (constructor, lines 16-28)
    isRunning, isPaused, queueIndex, runtimeQueue,
    lastActivityTime, currentItemSentAt,
    checkTimer, intervalTimer, config,
    \* the environment: sends awaiting their outcome, one-off timers, and
    \* the number of live repeating timers that call _checkSilence
    pendingSends, retryTimers, checkIntervals,
    \* history (not read by the program)
    nsent, attempts, notified, warnings

vars == << isRunning, isPaused, queueIndex, runtimeQueue,
           lastActivityTime, currentItemSentAt,
           checkTimer, intervalTimer, config,
           pendingSends, retryTimers, checkIntervals,
           nsent, attempts, notified, warnings >>

-----------------------------------------------------------------------------
(* Bounds of the model *)

MaxLen == 2        \* longest prompt list
MaxSends == 3      \* sendPrompt invocations and warnings in a behaviour
MaxAllSends == 2   \* the same, in the behaviours of the whole scheduler
MaxRunSends == 6   \* the same, in the behaviours of one run without skipPrompt

(* Constants of the program *)

MAX_RETRIES == 3
RETRY_DELAY_MS == 3000
CHECK_INTERVAL_MS == 5000
GRACE_SECONDS == 10
DEFAULT_SILENCE_TIMEOUT == 30
Null == 0

-----------------------------------------------------------------------------
(* Inputs *)

\* The prompt lists given to startQueue: the prefixes of ItemNames
ItemNames == <<"A", "B", "C", "D">>

PromptLists == {SubSeq(ItemNames, 1, n) : n \in 0..MaxLen}

\* Arguments of startQueue: no argument (undefined), or a list
StartArgs ==
    {[given |-> FALSE, list |-> << >>]} \cup {[given |-> TRUE, list |-> l] : l \in PromptLists}

\* The settings read by loadConfig.  intervalMinutes is a JSON number; the
\* model holds it in sixtieths of a minute so that sub-minute periods fit.
Configs ==
    { [ prompts |-> << >>, silenceTimeout |-> 10,
        intervalMinutes |-> 4, intervalPrompt |-> "" ],
      [ prompts |-> <<"B", "A">>, silenceTimeout |-> 5,
        intervalMinutes |-> 4, intervalPrompt |-> "P" ] }

\* A timer handle: null, or what setInterval was given
NoTimer == [active |-> FALSE, ms |-> 0, prompt |-> ""]

Max(a, b) == IF a >= b THEN a ELSE b

\* What getStats() can report in a field: 0 (no signal), or the time of an
\* event that lies SampleAges milliseconds back
SampleAges == {0, CHECK_INTERVAL_MS}

\* The longest durations, in seconds, the program compares the age of
\* currentItemSentAt (line 169) and of lastActivityTime (lines 178, 184) with
SentWindow == GRACE_SECONDS
ActivityWindow ==
    LET timeouts == {c.silenceTimeout : c \in Configs}
    IN  CHOOSE w \in timeouts : \A v \in timeouts : v <= w

\* The settings of the runs that are timed against the default timeout
SilenceConfigs ==
    { [ prompts |-> << >>, silenceTimeout |-> DEFAULT_SILENCE_TIMEOUT,
        intervalMinutes |-> 4, intervalPrompt |-> "" ],
      [ prompts |-> << >>, silenceTimeout |-> 5,
        intervalMinutes |-> 4, intervalPrompt |-> "" ] }

\* The longest duration those runs compare the age of a timestamp with
LongWindow ==
    LET timeouts == {c.silenceTimeout : c \in SilenceConfigs}
    IN  CHOOSE w \in timeouts : \A v \in timeouts : v <= w

\* Date.now()
now == 1000 * (1 + Max(Max(SentWindow, ActivityWindow), LongWindow))

Timestamps == {0} \cup {now - a : a \in SampleAges}

\* The samples getStats() returns: no signal, a click only, a DOM change
\* only, and both with either one the later
StatsSamples ==
    {st \in [lastActivity : Timestamps, lastDomChange : Timestamps] :
        \/ st.lastActivity = 0
        \/ st.lastDomChange = 0
        \/ st.lastActivity # st.lastDomChange}

-----------------------------------------------------------------------------
(* The object and its environment as one value, so that a method that calls
   another method is the composition of their effects. *)

Cur ==
    [ isRunning |-> isRunning, isPaused |-> isPaused, queueIndex |-> queueIndex,
      runtimeQueue |-> runtimeQueue, lastActivityTime |-> lastActivityTime,
      currentItemSentAt |-> currentItemSentAt, checkTimer |-> checkTimer,
      intervalTimer |-> intervalTimer, config |-> config,
      pendingSends |-> pendingSends, retryTimers |-> retryTimers,
      checkIntervals |-> checkIntervals,
      nsent |-> nsent, attempts |-> attempts, notified |-> notified,
      warnings |-> warnings ]

\* the state after a callback that leaves the object as s
Assign(s) ==
    /\ isRunning' = s.isRunning
    /\ isPaused' = s.isPaused
    /\ queueIndex' = s.queueIndex
    /\ runtimeQueue' = s.runtimeQueue
    /\ lastActivityTime' = s.lastActivityTime
    /\ currentItemSentAt' = s.currentItemSentAt
    /\ checkTimer' = s.checkTimer
    /\ intervalTimer' = s.intervalTimer
    /\ config' = s.config
    /\ pendingSends' = s.pendingSends
    /\ retryTimers' = s.retryTimers
    /\ checkIntervals' = s.checkIntervals
    /\ nsent' = s.nsent
    /\ attempts' = s.attempts
    /\ notified' = s.notified
    /\ warnings' = s.warnings

\* a callback of a behaviour in which at most `budget` sends and warnings occur
Step(s, budget) ==
    /\ s.nsent + s.warnings <= budget
    /\ Assign(s)

Commit(s) == Step(s, MaxSends)

-----------------------------------------------------------------------------
(* Methods of Scheduler, as functions from state to state *)

\* _stopCheckTimer: clearInterval ends the timer the field refers to
stopCheckTimer(s) ==
    IF s.checkTimer.active
    THEN [s EXCEPT !.checkTimer = NoTimer, !.checkIntervals = @ - 1]
    ELSE s

\* _startCheckTimer without the call of line 152
startCheckTimerNoClear(s) ==
    [s EXCEPT !.checkTimer =
                  [active |-> TRUE, ms |-> CHECK_INTERVAL_MS, prompt |-> ""],
              !.checkIntervals = @ + 1]

\* _startCheckTimer: setInterval creates a timer
startCheckTimer(s) ==
    [stopCheckTimer(s) EXCEPT
        !.checkTimer = [active |-> TRUE, ms |-> CHECK_INTERVAL_MS, prompt |-> ""],
        !.checkIntervals = @ + 1]

\* _onQueueComplete: the information message is the completion notification
onQueueComplete(s) ==
    [stopCheckTimer([s EXCEPT !.isRunning = FALSE]) EXCEPT !.notified = @ + 1]

\* cdpHandler.sendPrompt(prompt) called by the queue; the caller awaits it
sendPrompt(s, retryCount) ==
    [s EXCEPT !.nsent = @ + 1,
              !.attempts[s.queueIndex + 1] = @ + 1,
              !.pendingSends = @ (+) SetToBag(
                  {[retryCount |-> retryCount, idx |-> s.queueIndex, stopped |-> FALSE]})]

\* _executeCurrentItem with line 105 testing isPaused only
executeCurrentItemWhenStopped(s, retryCount) ==
    IF s.isPaused THEN s
    ELSE IF s.queueIndex >= Len(s.runtimeQueue) THEN onQueueComplete(s)
    ELSE sendPrompt([s EXCEPT !.currentItemSentAt = now,
                              !.lastActivityTime = now], retryCount)

\* _executeCurrentItem up to its await
executeCurrentItem(s, retryCount) ==
    IF ~s.isRunning \/ s.isPaused THEN s
    ELSE IF s.queueIndex >= Len(s.runtimeQueue) THEN onQueueComplete(s)
    ELSE sendPrompt([s EXCEPT !.currentItemSentAt = now,
                              !.lastActivityTime = now], retryCount)

\* _advanceQueue
advanceQueue(s) ==
    LET t == [s EXCEPT !.queueIndex = @ + 1]
    IN  IF t.queueIndex >= Len(t.runtimeQueue)
        THEN onQueueComplete(t)
        ELSE executeCurrentItem(t, 0)

\* _executeCurrentItem after its await, for the send p and its outcome
afterSend(s, p, success) ==
    LET t == [s EXCEPT !.pendingSends = @ (-) SetToBag({p})]
    IN  IF success THEN t
        ELSE IF p.retryCount < MAX_RETRIES - 1
        THEN [t EXCEPT !.retryTimers = @ (+) SetToBag(
                 {[retryCount |-> p.retryCount + 1, ms |-> RETRY_DELAY_MS,
                   idx |-> p.idx, stopped |-> FALSE]})]
        ELSE advanceQueue(t)

\* what line 49 would be if an empty array were falsy like an empty string
resolveItemsByLength(s, prompts) ==
    IF prompts.given /\ Len(prompts.list) > 0 THEN prompts.list ELSE s.config.prompts

\* `prompts || this.config.prompts`: an array, even an empty one, is truthy
resolveItems(s, prompts) ==
    IF prompts.given THEN prompts.list ELSE s.config.prompts

\* startQueue without line 58: the index of the last run is kept
startQueueKeepsIndex(s, prompts) ==
    LET items == resolveItems(s, prompts)
    IN  IF Len(items) = 0
        THEN [s EXCEPT !.warnings = @ + 1]
        ELSE LET t == [s EXCEPT !.runtimeQueue = items,
                                !.isRunning = TRUE,
                                !.isPaused = FALSE,
                                !.notified = 0,
                                !.attempts = [i \in 1..Len(items) |-> 0]]
             IN  startCheckTimer(executeCurrentItem(t, 0))

\* startQueue
startQueue(s, prompts) ==
    LET items == resolveItems(s, prompts)
    IN  IF Len(items) = 0
        THEN [s EXCEPT !.warnings = @ + 1]
        ELSE LET t == [s EXCEPT !.runtimeQueue = items,
                                !.queueIndex = 0,
                                !.isRunning = TRUE,
                                !.isPaused = FALSE,
                                !.notified = 0,
                                !.attempts = [i \in 1..Len(items) |-> 0]]
             IN  startCheckTimer(executeCurrentItem(t, 0))

\* History: the callbacks outstanding when stopQueue ends a run are marked
MarkStopped(bag) ==
    LET olds == BagToSet(bag)
        copies(r) == IF r \in olds THEN bag[r] ELSE 0
    IN  [m \in {[r EXCEPT !.stopped = TRUE] : r \in olds} |->
            copies(m) + copies([m EXCEPT !.stopped = FALSE])]

\* stopQueue clearing the interval timer as well
stopQueueAndInterval(s) ==
    LET t == stopCheckTimer([s EXCEPT !.isRunning = FALSE, !.isPaused = FALSE,
                                      !.intervalTimer = NoTimer])
    IN  IF s.isRunning
        THEN [t EXCEPT !.pendingSends = MarkStopped(@), !.retryTimers = MarkStopped(@)]
        ELSE t

\* stopQueue
stopQueue(s) ==
    LET t == stopCheckTimer([s EXCEPT !.isRunning = FALSE, !.isPaused = FALSE])
    IN  IF s.isRunning
        THEN [t EXCEPT !.pendingSends = MarkStopped(@), !.retryTimers = MarkStopped(@)]
        ELSE t

\* pauseQueue
pauseQueue(s) ==
    IF ~s.isRunning THEN s ELSE [s EXCEPT !.isPaused = TRUE]

\* resumeQueue without the isPaused test of line 87
resumeQueueUnpaused(s) ==
    IF ~s.isRunning THEN s
    ELSE executeCurrentItem([s EXCEPT !.isPaused = FALSE], 0)

\* resumeQueue
resumeQueue(s) ==
    IF ~s.isRunning \/ ~s.isPaused THEN s
    ELSE executeCurrentItem([s EXCEPT !.isPaused = FALSE], 0)

\* skipPrompt
skipPrompt(s) ==
    IF ~s.isRunning THEN s ELSE advanceQueue(s)

\* lines 174-180 with every sample raising the watermark
raiseWatermarkAlways(s, stats) ==
    LET latestActivity == Max(stats.lastActivity, stats.lastDomChange)
    IN  IF latestActivity # 0
        THEN [s EXCEPT !.lastActivityTime = latestActivity]
        ELSE s

\* _checkSilence, lines 172-180: the sample getStats() returns moves the watermark
raiseWatermark(s, stats) ==
    LET latestActivity == Max(stats.lastActivity, stats.lastDomChange)
    IN  IF latestActivity # 0 /\ latestActivity > s.lastActivityTime
        THEN [s EXCEPT !.lastActivityTime = latestActivity]
        ELSE s

\* _checkSilence without the wait of lines 167-169
checkSilenceNoGrace(s, stats) ==
    IF ~s.isRunning \/ s.isPaused THEN s
    ELSE IF s.currentItemSentAt = Null THEN s
    ELSE LET t == raiseWatermark(s, stats)
             silenceMs == now - t.lastActivityTime
         IN  IF silenceMs >= t.config.silenceTimeout * 1000 THEN advanceQueue(t) ELSE t

\* _checkSilence that detects silence and leaves the queue where it is
checkSilenceNoAdvance(s, stats) ==
    IF ~s.isRunning \/ s.isPaused THEN s
    ELSE IF s.currentItemSentAt = Null THEN s
    ELSE IF now - s.currentItemSentAt < GRACE_SECONDS * 1000 THEN s
    ELSE raiseWatermark(s, stats)

\* _checkSilence with the sample getStats() returns; the two durations are
\* compared in milliseconds, which is the comparison of the quotients by 1000
checkSilence(s, stats) ==
    IF ~s.isRunning \/ s.isPaused THEN s
    ELSE IF s.currentItemSentAt = Null THEN s
    ELSE IF now - s.currentItemSentAt < GRACE_SECONDS * 1000 THEN s
    ELSE LET t == raiseWatermark(s, stats)
             silenceMs == now - t.lastActivityTime
         IN  IF silenceMs >= t.config.silenceTimeout * 1000 THEN advanceQueue(t) ELSE t

\* stopInterval
stopInterval(s) ==
    IF s.intervalTimer.active THEN [s EXCEPT !.intervalTimer = NoTimer] ELSE s

\* startInterval
startInterval(s) ==
    LET t == stopInterval(s)
        ms == (t.config.intervalMinutes * 60 * 1000) \div 60
        prompt == t.config.intervalPrompt
    IN  IF prompt = "" THEN t
        ELSE [t EXCEPT !.intervalTimer =
                 [active |-> TRUE, ms |-> ms, prompt |-> prompt]]

\* stop
stop(s) == stopInterval(stopQueue(s))

\* loadConfig, reading the settings cfg
loadConfig(s, cfg) == [s EXCEPT !.config = cfg]

\* the callback of the interval timer: a send whose outcome nobody reads
intervalTick(s) == [s EXCEPT !.nsent = @ + 1]

\* getStatus
getStatus(s) ==
    [ isRunning |-> s.isRunning,
      isPaused |-> s.isPaused,
      queueIndex |-> s.queueIndex,
      queueLength |-> Len(s.runtimeQueue),
      prompts |-> s.runtimeQueue,
      currentPrompt |-> IF s.queueIndex < Len(s.runtimeQueue)
                        THEN s.runtimeQueue[s.queueIndex + 1] ELSE "null" ]

-----------------------------------------------------------------------------
(* Initial state: after the constructor, which calls loadConfig *)

Init ==
    /\ isRunning = FALSE
    /\ isPaused = FALSE
    /\ queueIndex = 0
    /\ runtimeQueue = << >>
    /\ lastActivityTime = Null
    /\ currentItemSentAt = Null
    /\ checkTimer = NoTimer
    /\ intervalTimer = NoTimer
    /\ config \in Configs
    /\ pendingSends = EmptyBag
    /\ retryTimers = EmptyBag
    /\ checkIntervals = 0
    /\ nsent = 0
    /\ attempts = << >>
    /\ notified = 0
    /\ warnings = 0

-----------------------------------------------------------------------------
(* Actions: calls by the host *)

StartQueue(prompts) == Commit(startQueue(Cur, prompts))

StopQueue == Commit(stopQueue(Cur))

PauseQueue ==
    /\ isRunning
    /\ Commit(pauseQueue(Cur))

ResumeQueue ==
    /\ isRunning /\ isPaused
    /\ Commit(resumeQueue(Cur))

SkipPrompt ==
    /\ isRunning
    /\ Commit(skipPrompt(Cur))

StartInterval == Commit(startInterval(Cur))

StopInterval ==
    /\ intervalTimer.active
    /\ Commit(stopInterval(Cur))

Stop == Commit(stop(Cur))

LoadConfig(cfg) == Commit(loadConfig(Cur, cfg))

(* Actions: callbacks *)

\* the awaited sendPrompt of line 117 settles
SendResolve(p, success) ==
    /\ BagIn(p, pendingSends)
    /\ Commit(afterSend(Cur, p, success))

\* the setTimeout of line 122 fires
RetryTimerFire(t) ==
    /\ BagIn(t, retryTimers)
    /\ Commit(executeCurrentItem([Cur EXCEPT !.retryTimers = @ (-) SetToBag({t})],
                                 t.retryCount))

\* the setInterval of line 153 fires
CheckTimerFire(stats) ==
    /\ checkIntervals >= 1
    /\ Commit(checkSilence(Cur, stats))

\* the setInterval of line 202 fires: a send nobody waits for
IntervalTimerFire ==
    /\ intervalTimer.active
    /\ Commit(intervalTick(Cur))

\* a timestamp one step of the clock later, seen from the new present
Older(ts, window) ==
    IF ts = Null THEN Null ELSE Max(ts - CHECK_INTERVAL_MS, now - window * 1000)

\* time passes
Tick ==
    /\ currentItemSentAt' = Older(currentItemSentAt, SentWindow)
    /\ lastActivityTime' = Older(lastActivityTime, ActivityWindow)
    /\ UNCHANGED << isRunning, isPaused, queueIndex, runtimeQueue,
                    checkTimer, intervalTimer, config,
                    pendingSends, retryTimers, checkIntervals, nsent, attempts,
                    notified, warnings >>

Next ==
    \/ \E prompts \in StartArgs : StartQueue(prompts)
    \/ StopQueue
    \/ PauseQueue
    \/ ResumeQueue
    \/ SkipPrompt
    \/ \E p \in BagToSet(pendingSends), success \in BOOLEAN : SendResolve(p, success)
    \/ \E t \in BagToSet(retryTimers) : RetryTimerFire(t)
    \/ \E stats \in StatsSamples : CheckTimerFire(stats)
    \/ Tick

Spec == Init /\ [][Next]_vars

-----------------------------------------------------------------------------
(* The whole scheduler: the queue, the interval repeater, full shutdown and
   the reload of the settings. *)

WithinAll == nsent' + warnings' <= MaxAllSends

NextAll ==
    \/ \E prompts \in StartArgs : StartQueue(prompts) /\ WithinAll
    \/ StopQueue /\ WithinAll
    \/ PauseQueue /\ WithinAll
    \/ ResumeQueue /\ WithinAll
    \/ SkipPrompt /\ WithinAll
    \/ \E p \in BagToSet(pendingSends), success \in BOOLEAN :
           SendResolve(p, success) /\ WithinAll
    \/ \E t \in BagToSet(retryTimers) : RetryTimerFire(t) /\ WithinAll
    \/ \E stats \in StatsSamples : CheckTimerFire(stats) /\ WithinAll
    \/ Tick
    \/ StartInterval /\ WithinAll
    \/ StopInterval /\ WithinAll
    \/ Stop /\ WithinAll
    \/ \E cfg \in Configs : LoadConfig(cfg) /\ WithinAll
    \/ IntervalTimerFire /\ WithinAll

SpecAll == Init /\ [][NextAll]_vars

-----------------------------------------------------------------------------
(* A run left to itself: startQueue has returned and the host calls nothing
   but skipPrompt.  Every send settles, every timer that is set fires, and
   time passes. *)

\* the scheduler after the constructor has read the settings cfg
Constructed(cfg) ==
    [ isRunning |-> FALSE, isPaused |-> FALSE, queueIndex |-> 0,
      runtimeQueue |-> << >>, lastActivityTime |-> Null,
      currentItemSentAt |-> Null, checkTimer |-> NoTimer,
      intervalTimer |-> NoTimer, config |-> cfg,
      pendingSends |-> EmptyBag, retryTimers |-> EmptyBag,
      checkIntervals |-> 0,
      nsent |-> 0, attempts |-> << >>, notified |-> 0, warnings |-> 0 ]

\* the scheduler is as s
Is(s) ==
    /\ isRunning = s.isRunning
    /\ isPaused = s.isPaused
    /\ queueIndex = s.queueIndex
    /\ runtimeQueue = s.runtimeQueue
    /\ lastActivityTime = s.lastActivityTime
    /\ currentItemSentAt = s.currentItemSentAt
    /\ checkTimer = s.checkTimer
    /\ intervalTimer = s.intervalTimer
    /\ config = s.config
    /\ pendingSends = s.pendingSends
    /\ retryTimers = s.retryTimers
    /\ checkIntervals = s.checkIntervals
    /\ nsent = s.nsent
    /\ attempts = s.attempts
    /\ notified = s.notified
    /\ warnings = s.warnings

InitLive ==
    \E cfg \in Configs, items \in PromptLists \ {<< >>} :
        Is(startQueue(Constructed(cfg), [given |-> TRUE, list |-> items]))

LiveSkipPrompt ==
    /\ isRunning
    /\ Assign(skipPrompt(Cur))

LiveSendResolve ==
    \E p \in BagToSet(pendingSends), success \in BOOLEAN :
        Assign(afterSend(Cur, p, success))

LiveRetryTimerFire ==
    \E t \in BagToSet(retryTimers) :
        Assign(executeCurrentItem([Cur EXCEPT !.retryTimers = @ (-) SetToBag({t})],
                                  t.retryCount))

LiveCheckTimerFire(stats) ==
    /\ checkIntervals >= 1
    /\ Assign(checkSilence(Cur, stats))

NextLive ==
    \/ LiveSkipPrompt
    \/ LiveSendResolve
    \/ LiveRetryTimerFire
    \/ \E stats \in StatsSamples : LiveCheckTimerFire(stats)
    \/ Tick

\* a sample without signal; a check with a sample that does not raise the
\* watermark is the same step
NoActivity == [lastActivity |-> 0, lastDomChange |-> 0]

\* The event loop runs every callback that is due, and the clock advances.
\* The silence check is due every CHECK_INTERVAL_MS; which sample it polls is
\* up to the automation client, so only its step without new activity is fair.
SpecLive ==
    /\ InitLive
    /\ [][NextLive]_vars
    /\ WF_vars(LiveSendResolve)
    /\ WF_vars(LiveRetryTimerFire)
    /\ WF_vars(LiveCheckTimerFire(NoActivity))
    /\ WF_vars(Tick)

-----------------------------------------------------------------------------
(* One run in which skipPrompt is never called: startQueue has returned, the
   host pauses and resumes, sends settle and retry timers fire. *)

NextRun ==
    \/ isRunning /\ Step(pauseQueue(Cur), MaxRunSends)
    \/ isRunning /\ isPaused /\ Step(resumeQueue(Cur), MaxRunSends)
    \/ \E p \in BagToSet(pendingSends), success \in BOOLEAN :
           Step(afterSend(Cur, p, success), MaxRunSends)
    \/ \E t \in BagToSet(retryTimers) :
           Step(executeCurrentItem([Cur EXCEPT !.retryTimers = @ (-) SetToBag({t})],
                                   t.retryCount), MaxRunSends)

SpecRun == InitLive /\ [][NextRun]_vars

-----------------------------------------------------------------------------
(* Runs timed against the default silence timeout: the host starts queues,
   sends settle, timers fire and time passes, with both timestamps followed
   for LongWindow seconds. *)

InitSilence ==
    /\ isRunning = FALSE
    /\ isPaused = FALSE
    /\ queueIndex = 0
    /\ runtimeQueue = << >>
    /\ lastActivityTime = Null
    /\ currentItemSentAt = Null
    /\ checkTimer = NoTimer
    /\ intervalTimer = NoTimer
    /\ config \in SilenceConfigs
    /\ pendingSends = EmptyBag
    /\ retryTimers = EmptyBag
    /\ checkIntervals = 0
    /\ nsent = 0
    /\ attempts = << >>
    /\ notified = 0
    /\ warnings = 0

TickLong ==
    /\ currentItemSentAt' = Older(currentItemSentAt, LongWindow)
    /\ lastActivityTime' = Older(lastActivityTime, LongWindow)
    /\ UNCHANGED << isRunning, isPaused, queueIndex, runtimeQueue,
                    checkTimer, intervalTimer, config,
                    pendingSends, retryTimers, checkIntervals, nsent, attempts,
                    notified, warnings >>

NextSilence ==
    \/ \E prompts \in StartArgs : StartQueue(prompts)
    \/ \E p \in BagToSet(pendingSends), success \in BOOLEAN : SendResolve(p, success)
    \/ \E t \in BagToSet(retryTimers) : RetryTimerFire(t)
    \/ \E stats \in StatsSamples : CheckTimerFire(stats)
    \/ TickLong

SpecSilence == InitSilence /\ [][NextSilence]_vars

-----------------------------------------------------------------------------
(* Vocabulary of the properties *)

\* the queue fields a stale callback must leave alone
QueueState == << isRunning, isPaused, queueIndex, runtimeQueue,
                 lastActivityTime, currentItemSentAt >>

\* a send is stale once its item is no longer the current one of a running queue
Stale(p) == p.stopped \/ ~isRunning \/ p.idx # queueIndex

SomeSendResolves == \E p \in BagToSet(pendingSends), ok \in BOOLEAN : SendResolve(p, ok)
SomeRetryFires == \E t \in BagToSet(retryTimers) : RetryTimerFire(t)
SomeCheckFires == \E stats \in StatsSamples : CheckTimerFire(stats)

-----------------------------------------------------------------------------
(* C1: in every reachable state isPaused implies isRunning. *)
C1_PausedImpliesRunning == isPaused => isRunning

(* C2: in every reachable state queueIndex <= len(runtimeQueue). *)
C2_IndexWithinQueue == queueIndex <= Len(runtimeQueue)

(* C3: the completion notification is shown at most once per run, and it has
   been shown once the index has moved past the last item. *)
C3_CompletionOncePerRun ==
    /\ notified <= 1
    /\ (Len(runtimeQueue) > 0 /\ queueIndex >= Len(runtimeQueue)) => notified = 1

(* C4: a callback that was outstanding when stopQueue ended its run never
   causes the completion notification. *)
C4_NoCompletionAfterStop ==
    [][ ( \/ \E p \in BagToSet(pendingSends), ok \in BOOLEAN :
                 p.stopped /\ SendResolve(p, ok)
          \/ \E t \in BagToSet(retryTimers) : t.stopped /\ RetryTimerFire(t) )
        => notified' = notified ]_vars

(* C5: a retry timer that was set during a run and fires after stopQueue
   ended that run initiates no send and changes no queue state, also when
   another run has begun. *)
C5_StaleTimerIsNoOp ==
    [][ (\E t \in BagToSet(retryTimers) : t.stopped /\ RetryTimerFire(t))
        => /\ nsent' = nsent
           /\ UNCHANGED QueueState ]_vars

(* C6: the outcome of a send whose item is no longer current, or whose queue
   was stopped, does not move queueIndex, initiates no send and triggers no
   completion. *)
C6_LateOutcomeIsNoOp ==
    [][ (\E p \in BagToSet(pendingSends), ok \in BOOLEAN :
             Stale(p) /\ SendResolve(p, ok))
        => /\ queueIndex' = queueIndex
           /\ nsent' = nsent
           /\ notified' = notified ]_vars

(* C7: when the send of item k fails on its third attempt the item is
   abandoned with queueIndex = k + 1, and sendPrompt was invoked at most
   MAX_RETRIES times for it. *)
C7_AbandonAfterThreeAttempts ==
    [][ \A p \in BagToSet(pendingSends) :
            ( /\ p.retryCount = MAX_RETRIES - 1
              /\ p.idx < Len(attempts)
              /\ SendResolve(p, FALSE) )
            => /\ queueIndex' = p.idx + 1
               /\ attempts[p.idx + 1] <= MAX_RETRIES ]_vars

(* C8: while isPaused no callback initiates a send or moves queueIndex, and
   skipPrompt while paused initiates no send. *)
C8_PausedNeitherSendsNorAdvances ==
    [][ /\ (isPaused /\ (SomeSendResolves \/ SomeRetryFires \/ SomeCheckFires))
            => (nsent' = nsent /\ queueIndex' = queueIndex)
        /\ (isPaused /\ SkipPrompt) => nsent' = nsent ]_vars

(* C9: in every reachable state, startQueue with a non-empty list makes
   runtimeQueue that list, sets queueIndex = 0, isRunning, ~isPaused,
   initiates the send of item 0 before it returns, and getStatus().queueIndex
   is 0 when it has returned. *)
FirstSend == [retryCount |-> 0, idx |-> 0, stopped |-> FALSE]

C9_StartQueueRunsItemZero ==
    \A a \in StartArgs :
        (a.given /\ Len(a.list) > 0)
        => LET after == startQueue(Cur, a)
           IN  /\ after.runtimeQueue = a.list
               /\ after.queueIndex = 0
               /\ after.isRunning = TRUE
               /\ after.isPaused = FALSE
               /\ after.nsent = nsent + 1
               /\ CopiesIn(FirstSend, after.pendingSends)
                      = CopiesIn(FirstSend, pendingSends) + 1
               /\ after.attempts = [i \in 1..Len(a.list) |-> IF i = 1 THEN 1 ELSE 0]
               /\ after.currentItemSentAt = now
               /\ getStatus(after).queueIndex = 0
               /\ getStatus(after).currentPrompt = a.list[1]

\* startQueue(["A","B"]) has just returned, and it was not the first send
C9_Witness ==
    /\ isRunning /\ ~isPaused /\ queueIndex = 0
    /\ runtimeQueue = <<"A", "B">>
    /\ nsent = 2
    /\ attempts = <<1, 0>>
    /\ BagIn(FirstSend, pendingSends)
    /\ getStatus(Cur).queueIndex = 0

(* C10: in every reachable state, startQueue with an empty resolved list (an
   explicit empty list, or no argument and no configured prompts) shows a
   warning, initiates no send, starts no timer and changes no field of the
   scheduler; called from Idle, isRunning stays false. *)
C10_EmptyStartOnlyWarns ==
    \A a \in StartArgs :
        ( \/ a.given /\ a.list = << >>
          \/ ~a.given /\ config.prompts = << >> )
        => LET after == startQueue(Cur, a)
           IN  /\ after.warnings = warnings + 1
               /\ after = [Cur EXCEPT !.warnings = after.warnings]
               /\ after.isRunning = isRunning

\* startQueue([]) from Idle, with prompts configured: still idle, one warning
C10_Witness ==
    /\ warnings = 1
    /\ ~isRunning /\ ~isPaused
    /\ ~checkTimer.active
    /\ nsent = 0
    /\ runtimeQueue = << >>
    /\ config.prompts # << >>

(* C11: the silence check advances the queue only when at least GRACE_SECONDS
   have passed since currentItemSentAt and the watermark, raised by the sample,
   is at least the configured timeout old; with a timeout of 30 seconds and no
   activity since the item was sent, a check with a zero sample advances
   exactly when 30 seconds or more have passed since the item was sent. *)
C11_SilenceAdvanceTiming ==
    /\ \A stats \in StatsSamples :
           LET watermark == Max(lastActivityTime,
                                Max(stats.lastActivity, stats.lastDomChange))
           IN  checkSilence(Cur, stats).queueIndex # queueIndex
               => /\ currentItemSentAt # Null
                  /\ now - currentItemSentAt >= GRACE_SECONDS * 1000
                  /\ now - watermark >= config.silenceTimeout * 1000
    /\ ( /\ isRunning /\ ~isPaused
         /\ config.silenceTimeout = 30
         /\ currentItemSentAt # Null
         /\ lastActivityTime = currentItemSentAt )
       => ( checkSilence(Cur, NoActivity).queueIndex = queueIndex + 1
            <=> now - currentItemSentAt >= 30 * 1000 )

\* item 0 was sent once, 30 seconds passed without activity, item 1 is sent
C11_Witness ==
    /\ config.silenceTimeout = 30
    /\ isRunning /\ ~isPaused
    /\ queueIndex = 1
    /\ attempts = <<1, 1>>
    /\ currentItemSentAt = now
    /\ pendingSends = SetToBag({[retryCount |-> 0, idx |-> 1, stopped |-> FALSE]})

(* C12: a silence check never lowers the watermark lastActivityTime; the
   sample it polls leaves the watermark unchanged when its later field is 0
   or not above the watermark, and raises it to exactly that value otherwise;
   a check that polls a sample and does not advance ends with that watermark. *)
C12_WatermarkMonotone ==
    \A stats \in StatsSamples :
        LET latest == Max(stats.lastActivity, stats.lastDomChange)
            raised == raiseWatermark(Cur, stats).lastActivityTime
            after == checkSilence(Cur, stats)
        IN  /\ after.lastActivityTime >= lastActivityTime
            /\ raised >= lastActivityTime
            /\ (latest = 0 \/ latest <= lastActivityTime) => raised = lastActivityTime
            /\ (latest > lastActivityTime) => raised = latest
            /\ ( /\ isRunning /\ ~isPaused /\ currentItemSentAt # Null
                 /\ now - currentItemSentAt >= GRACE_SECONDS * 1000
                 /\ after.queueIndex = queueIndex )
               => after.lastActivityTime = raised

\* a check after the grace period has raised the watermark to a fresh sample
C12_Witness ==
    /\ isRunning /\ ~isPaused
    /\ currentItemSentAt = now - GRACE_SECONDS * 1000
    /\ lastActivityTime = now
    /\ queueIndex = 0

(* C16: pauseQueue twice is pauseQueue once, in state and in sends; and
   resumeQueue on a scheduler that is not running, or running and not paused,
   changes nothing and sends nothing. *)
C16_PauseIdempotentResumeNoOp ==
    /\ pauseQueue(pauseQueue(Cur)) = pauseQueue(Cur)
    /\ (~isRunning \/ ~isPaused) => resumeQueue(Cur) = Cur

\* paused with a send in flight and a retry pending
C16_Witness ==
    /\ isRunning /\ isPaused
    /\ pendingSends # EmptyBag
    /\ retryTimers # EmptyBag

(* C17: a retry timer set for item k that fires when item k is no longer the
   current item initiates no send. *)
C17_RetryOnlyOwnItem ==
    [][ \A t \in BagToSet(retryTimers) :
            (t.idx # queueIndex /\ RetryTimerFire(t)) => nsent' = nsent ]_vars

(* C13: loadConfig during a run leaves the run's list, index and flags alone,
   and the silence check decides for the run as it would have decided without
   the reload. *)
C13_ReloadKeepsRunTimeout ==
    isRunning =>
        \A cfg \in Configs :
            LET reloaded == loadConfig(Cur, cfg)
            IN  /\ reloaded.runtimeQueue = runtimeQueue
                /\ reloaded.queueIndex = queueIndex
                /\ reloaded.isRunning = isRunning
                /\ reloaded.isPaused = isPaused
                /\ \A stats \in StatsSamples :
                       checkSilence(reloaded, stats).queueIndex
                           = checkSilence(Cur, stats).queueIndex

(* C14: startInterval with an empty intervalPrompt changes no state, also
   when an interval timer is running, and stopInterval after it is a no-op. *)
C14_EmptyIntervalNoChange ==
    (config.intervalPrompt = "")
    => /\ startInterval(Cur) = Cur
       /\ stopInterval(startInterval(Cur)) = startInterval(Cur)

(* C15: stop() leaves the scheduler not running and without interval timer,
   and from such a state every step that is not a startQueue or startInterval
   call initiates no send and leaves it so. *)
Quiet == ~isRunning /\ ~intervalTimer.active

QueueFields(s) ==
    << s.isRunning, s.isPaused, s.queueIndex, s.runtimeQueue,
       s.lastActivityTime, s.currentItemSentAt >>

C18_IntervalAndQueueIndependent ==
    /\ QueueFields(startInterval(Cur)) = QueueFields(Cur)
    /\ QueueFields(stopInterval(Cur)) = QueueFields(Cur)
    /\ QueueFields(intervalTick(Cur)) = QueueFields(Cur)
    /\ \A a \in StartArgs : startQueue(Cur, a).intervalTimer = intervalTimer
    /\ stopQueue(Cur).intervalTimer = intervalTimer
    /\ pauseQueue(Cur).intervalTimer = intervalTimer
    /\ resumeQueue(Cur).intervalTimer = intervalTimer
    /\ skipPrompt(Cur).intervalTimer = intervalTimer
    /\ onQueueComplete(Cur).intervalTimer = intervalTimer
    /\ \A stats \in StatsSamples : checkSilence(Cur, stats).intervalTimer = intervalTimer
    /\ \A p \in BagToSet(pendingSends), ok \in BOOLEAN :
           afterSend(Cur, p, ok).intervalTimer = intervalTimer

\* the queue has completed while the interval repeater keeps sending
C18_Witness ==
    /\ intervalTimer.active
    /\ ~isRunning /\ notified = 1
    /\ queueIndex = Len(runtimeQueue)
    /\ nsent >= 2

(* C19: in a run that the host neither stops, pauses nor restarts, in which
   every send settles, the timers fire and the activity samples raise the
   watermark only finitely often, a running and unpaused queue eventually
   completes: isRunning is false and the completion notification was shown. *)
WatermarkRaised ==
    \E stats \in StatsSamples :
        /\ LiveCheckTimerFire(stats)
        /\ checkSilence(Cur, stats).queueIndex = queueIndex
        /\ lastActivityTime' > lastActivityTime

C19_RunEventuallyCompletes ==
    \/ []<><<WatermarkRaised>>_vars
    \/ (isRunning /\ ~isPaused) ~> (~isRunning /\ notified >= 1)

\* both items were sent once and the silence check has completed the queue
C19_Witness ==
    /\ ~isRunning /\ notified = 1
    /\ runtimeQueue = <<"A", "B">>
    /\ queueIndex = 2
    /\ attempts = <<1, 1>>
    /\ pendingSends = EmptyBag /\ retryTimers = EmptyBag

(* C20: no item is silently dropped.  In a run without any skipPrompt call,
   every item at an index below queueIndex has had sendPrompt invoked for it
   at least once. *)
C20_NoItemDropped ==
    \A i \in 1..Len(attempts) : (i - 1 < queueIndex) => attempts[i] >= 1

(* C21: between callbacks the repeating silence-check timer is active exactly
   when isRunning is true, and the host never holds more than one such timer:
   the timer the checkTimer field refers to is the only live one, and a
   startQueue call, issued while running or not, leaves at most one. *)
C21_OneCheckTimerIffRunning ==
    /\ checkTimer.active <=> isRunning
    /\ checkIntervals = (IF checkTimer.active THEN 1 ELSE 0)
    /\ \A prompts \in StartArgs :
           LET s == startQueue(Cur, prompts)
           IN  /\ s.checkIntervals <= 1
               /\ s.checkTimer.active <=> s.isRunning

\* startQueue was called while a run was under way: the sends of both runs
\* are in flight, and one timer is live
C21_Witness ==
    /\ isRunning /\ ~isPaused /\ notified = 0
    /\ checkTimer.active /\ checkIntervals = 1
    /\ ~intervalTimer.active
    /\ nsent = 2 /\ attempts = <<1>>
    /\ BagCardinality(pendingSends) = 2
    /\ \A p \in BagToSet(pendingSends) : ~p.stopped /\ p.retryCount = 0

====
